---- MODULE Spec2Model ----
(***************************************************************************)
(* Model of main.py: the survey pipeline process_pdf (page loop, schema     *)
(* finalization, row materialization, CSV output) together with its pure    *)
(* helpers natural_sort_key and extract_json_from_text.                     *)
(*                                                                          *)
(* Strings that the code inspects character by character (question          *)
(* identifiers, model response texts) are sequences of one-character        *)
(* strings.  Strings the code treats as opaque (answer values) are TLA+     *)
(* strings.                                                                 *)
(***************************************************************************)
EXTENDS Integers, Sequences, FiniteSets, TLC

(***************************************************************************)
(* Bounds of the model.                                                     *)
(***************************************************************************)
MaxPages == 3
MaxSurveyLength == 2
MaxTextLen == 6

VARIABLES
    mode,               \* which function is being exercised: "pdf" or "extract"
    images_len,         \* len(images)
    survey_length,      \* the survey_length argument
    vocab,              \* identifiers the pages of this run may mention
    pc,                 \* position inside process_pdf
    i,                  \* outer loop variable
    j,                  \* inner loop variable
    survey_data,        \* the per-instance OrderedDict
    question_structure, \* the list, later the sorted schema
    all_data,           \* rows built so far
    csv,                \* the file written at the end
    inst_results,       \* history: what process_image_with_llm returned for each page of the current instance
    seen1,              \* history: identifiers returned by successful pages of instance 1
    later_ids,          \* history: identifiers returned by pages of later instances
    finalize_count,     \* history: executions of line 159
    pages_done,         \* history: pages whose result has been recorded
    fixed_schema,       \* history: the value line 159 assigned
    text,               \* argument of extract_json_from_text
    result              \* what extract_json_from_text returned and logged

vars == <<mode, images_len, survey_length, vocab, pc, i, j, survey_data,
          question_structure, all_data, csv, inst_results, seen1, later_ids,
          finalize_count, pages_done, fixed_schema, text, result>>

(***************************************************************************)
(* Generic helpers.                                                         *)
(***************************************************************************)
Min(a, b) == IF a <= b THEN a ELSE b

SetMin(S) == CHOOSE x \in S : \A y \in S : x <= y

SetMax(S) == CHOOSE x \in S : \A y \in S : x >= y

Range(s) == {s[k] : k \in 1..Len(s)}

\* ceil(n / l) for n >= 0, l >= 1
Ceil(n, l) == (n + l - 1) \div l

\* all arrangements of the finite set S as a sequence without repetition
Arrangements(S) ==
    {p \in [1..Cardinality(S) -> S] : \A a, b \in 1..Cardinality(S) : a # b => p[a] # p[b]}

(***************************************************************************)
(* Characters.  Ord is the code point, used by Python's string comparison.  *)
(***************************************************************************)
Digits == {"0", "1", "2", "3", "4", "5", "6", "7", "8", "9"}

DigitVal(c) ==
    CASE c = "0" -> 0 [] c = "1" -> 1 [] c = "2" -> 2 [] c = "3" -> 3 [] c = "4" -> 4
      [] c = "5" -> 5 [] c = "6" -> 6 [] c = "7" -> 7 [] c = "8" -> 8 [] c = "9" -> 9

Ord(c) ==
    IF c \in Digits THEN 48 + DigitVal(c)
    ELSE CASE c = "_" -> 95 [] c = "a" -> 97 [] c = "b" -> 98 [] OTHER -> 120

\* Python str < str: lexicographic by code point, a proper prefix is smaller
StrLess(x, y) ==
    LET m == Min(Len(x), Len(y))
        d == {k \in 1..m : x[k] # y[k]}
    IN  IF d = {} THEN Len(x) < Len(y)
        ELSE Ord(x[SetMin(d)]) < Ord(y[SetMin(d)])

(***************************************************************************)
(* natural_sort_key (main.py:16-17).                                        *)
(***************************************************************************)
\* end of the digit run that starts at position p of s
RECURSIVE DigitRunEnd(_, _)
DigitRunEnd(s, p) ==
    IF p < Len(s) /\ s[p + 1] \in Digits THEN DigitRunEnd(s, p + 1) ELSE p

\* re.split(r'(\d+)', s): literal, digit run, literal, ..., literal
RECURSIVE ReSplitFrom(_, _, _, _)
ReSplitFrom(s, p, lit, acc) ==
    IF p > Len(s) THEN Append(acc, lit)
    ELSE IF s[p] \in Digits
         THEN LET e == DigitRunEnd(s, p)
              IN  ReSplitFrom(s, e + 1, <<>>, acc \o <<lit, SubSeq(s, p, e)>>)
         ELSE ReSplitFrom(s, p + 1, Append(lit, s[p]), acc)

ReSplit(s) == ReSplitFrom(s, 1, <<>>, <<>>)

\* str.isdigit(): non-empty and every character a digit
IsDigitStr(c) == c # <<>> /\ \A k \in 1..Len(c) : c[k] \in Digits

\* int(c) of a digit string
RECURSIVE IntOf(_)
IntOf(c) ==
    IF c = <<>> THEN 0 ELSE 10 * IntOf(SubSeq(c, 1, Len(c) - 1)) + DigitVal(c[Len(c)])

\* faulty variant: the digit runs are kept as strings (plain lexicographic comparison)
natural_sort_key_lexicographic(s) ==
    [k \in 1..Len(ReSplit(s)) |-> [num |-> FALSE, n |-> 0, lit |-> ReSplit(s)[k]]]

\* [int(c) if c.isdigit() else c for c in re.split(r'(\d+)', s)]
natural_sort_key(s) ==
    LET toks == ReSplit(s)
    IN  [k \in 1..Len(toks) |->
            IF IsDigitStr(toks[k])
            THEN [num |-> TRUE, n |-> IntOf(toks[k]), lit |-> <<>>]
            ELSE [num |-> FALSE, n |-> 0, lit |-> toks[k]]]

\* comparison of two elements of a key; tokens at the same index of two keys
\* are both literals (odd index) or both integers (even index)
ElemLess(a, b) ==
    IF a.num /\ b.num THEN a.n < b.n ELSE StrLess(a.lit, b.lit)

\* Python list < list: first differing element decides, a proper prefix is smaller
KeyLess(ka, kb) ==
    LET m == Min(Len(ka), Len(kb))
        d == {k \in 1..m : ka[k] # kb[k]}
    IN  IF d = {} THEN Len(ka) < Len(kb)
        ELSE ElemLess(ka[SetMin(d)], kb[SetMin(d)])

\* identifier a sorts strictly before identifier b
NaturalLess(a, b) == KeyLess(natural_sort_key(a), natural_sort_key(b))

(***************************************************************************)
(* Data of a run.                                                           *)
(***************************************************************************)
Id_1_2 == <<"1", "_", "2">>

Id_1_10 == <<"1", "_", "1", "0">>

Id_1_02 == <<"1", "_", "0", "2">>

Id_2_1 == <<"2", "_", "1">>

Id_1_1 == <<"1", "_", "1">>

Id_2 == <<"2">>

\* the identifier vocabularies a run's pages draw their keys from
Vocabularies == {{Id_1_2, Id_1_10}, {Id_1_2, Id_1_02}}

\* a JSON value found under an identifier: a {question, answer} mapping, a
\* mapping without the 'answer' key, or a value that is no mapping at all
NoKey == "<no answer key>"

EntryTrue == [isdict |-> TRUE, answer |-> "true"]

EntryFalse == [isdict |-> TRUE, answer |-> "false"]

EntryNoAnswer == [isdict |-> TRUE, answer |-> NoKey]

EntryNotMapping == [isdict |-> FALSE, answer |-> NoKey]

Entries == {EntryTrue, EntryFalse, EntryNoAnswer, EntryNotMapping}

EmptyDict == [k \in {} |-> EntryTrue]

\* every top-level JSON object over the vocabulary v
Dicts(v) == UNION {[ks -> Entries] : ks \in SUBSET v}

\* Python None, and a dict d, as the values a call may return
None == [none |-> TRUE, d |-> EmptyDict]

Some(d) == [none |-> FALSE, d |-> d]

\* what the model call produces for one page
Responses(v) ==
    {[kind |-> k, json_data |-> None] : k \in {"api_error", "no_content", "not_text", "text"}}
    \cup {[kind |-> "text", json_data |-> Some(d)] : d \in Dicts(v)}

(***************************************************************************)
(* process_image_with_llm (main.py:49-133).  The response text has already  *)
(* been handed to extract_json_from_text; resp.json_data is what it gave.   *)
(***************************************************************************)
\* Python truthiness of json_data at line 122
Truthy(jd) == ~jd.none /\ DOMAIN jd.d # {}

process_image_with_llm(resp) ==
    IF resp.kind = "api_error" THEN None            \* except at line 130
    ELSE IF resp.kind = "no_content" THEN None      \* line 129
    ELSE IF resp.kind = "not_text" THEN None        \* line 127
    ELSE IF Truthy(resp.json_data) THEN resp.json_data
    ELSE None                                       \* line 125

(***************************************************************************)
(* The pieces of process_pdf (main.py:135-179).                             *)
(***************************************************************************)
\* faulty variant: dict.setdefault semantics, the first page to supply a key wins
DictUpdateFirstWins(sd, d) ==
    [k \in DOMAIN sd \cup DOMAIN d |-> IF k \in DOMAIN sd THEN sd[k] ELSE d[k]]

\* survey_data.update(d), line 149
DictUpdate(sd, d) ==
    [k \in DOMAIN sd \cup DOMAIN d |-> IF k \in DOMAIN d THEN d[k] ELSE sd[k]]

\* faulty variant: a failed page discards what the instance has collected so far
SurveyDataAfterPageReset(sd, sdata) ==
    IF sdata.none THEN EmptyDict ELSE DictUpdate(sd, sdata.d)

\* survey_data after lines 147-155: update(None) raises TypeError before
\* anything is changed, and the except clause only logs
SurveyDataAfterPage(sd, sdata) ==
    IF sdata.none THEN sd ELSE DictUpdate(sd, sdata.d)

\* faulty variant: identifiers are collected from every instance
QuestionStructureAfterPageAlways(qs, ii, sdata, order) ==
    IF sdata.none THEN qs ELSE qs \o order

\* question_structure after lines 147-155; order is structured_data.keys()
QuestionStructureAfterPage(qs, ii, sdata, order) ==
    IF sdata.none \/ ii # 0 THEN qs ELSE qs \o order

\* the possible orders of d.keys(): the insertion order of the parsed object
KeyOrders(sdata) == Arrangements(DOMAIN sdata.d)

\* s is arranged in non-decreasing natural order
IsNaturallySorted(s) ==
    \A k \in 1..(Len(s) - 1) : ~NaturalLess(s[k + 1], s[k])

\* faulty variant: duplicates removed, first-observed order kept
SortedSetUnsorted(qs) ==
    {p \in Arrangements(Range(qs)) :
        \A a, b \in 1..Len(p) :
            a < b => SetMin({k \in 1..Len(qs) : qs[k] = p[a]})
                        < SetMin({k \in 1..Len(qs) : qs[k] = p[b]})}

\* sorted(set(question_structure), key=natural_sort_key), line 159.  The sort
\* is stable over the iteration order of the set, which Python does not fix
\* (string hashing is randomised per process), so identifiers with equal
\* keys may come out in either order.
SortedSet(qs) == {p \in Arrangements(Range(qs)) : IsNaturallySorted(p)}

AttributeError == "<AttributeError>"

\* faulty variant: .get('answer') without the '' default, so a missing answer is None
RowCellDefaultNone(sd, q) ==
    IF q \notin DOMAIN sd THEN "None"
    ELSE IF ~sd[q].isdict THEN AttributeError
    ELSE IF sd[q].answer = NoKey THEN "None"
    ELSE sd[q].answer

\* survey_data.get(q, {}).get('answer', ''), line 165
RowCell(sd, q) ==
    IF q \notin DOMAIN sd THEN ""
    ELSE IF ~sd[q].isdict THEN AttributeError
    ELSE IF sd[q].answer = NoKey THEN ""
    ELSE sd[q].answer

\* row_data, lines 163-165
RowData(ii, l, qs, sd) ==
    <<ii \div l + 1>> \o [k \in 1..Len(qs) |-> RowCell(sd, qs[k])]

\* line 165 raises for some schema position
RowRaises(qs, sd) == \E k \in 1..Len(qs) : RowCell(sd, qs[k]) = AttributeError

ResponseIdCol == <<"response_id">>

\* ['response_id'] + question_structure, line 174
Header(qs) == <<ResponseIdCol>> \o qs

NotWritten == [written |-> FALSE, header |-> <<>>, rows |-> <<>>]

\* faulty variant: the "if i == 0" of line 158 is missing
PcAfterPageAlwaysFinalize(ii, jj, l) ==
    IF jj + 1 < l THEN "page" ELSE "finalize"

\* where control goes after the inner loop body for page index jj
PcAfterPage(ii, jj, l) ==
    IF jj + 1 < l THEN "page" ELSE IF ii = 0 THEN "finalize" ELSE "row"

NoResult == [ok |-> FALSE, value |-> {}, log |-> "not called"]

(***************************************************************************)
(* process_pdf as a state machine.                                          *)
(*   pc = "loop"      head of the loop over i        (line 142)            *)
(*   pc = "page"      body of the loop over j        (lines 145-155)       *)
(*   pc = "finalize"  the schema is sorted           (lines 158-160)       *)
(*   pc = "row"       the row is built and appended  (lines 163-167)       *)
(*   pc = "done"      the file is written            (lines 172-179)       *)
(*   pc = "crashed"   an exception left process_pdf                        *)
(***************************************************************************)
InitExtractIdle ==
    /\ text = <<>>
    /\ result = NoResult

Init ==
    /\ mode = "pdf"
    /\ images_len \in 0..MaxPages
    /\ survey_length \in 1..MaxSurveyLength
    /\ vocab \in Vocabularies
    /\ pc = "loop"
    /\ i = 0
    /\ j = 0
    /\ survey_data = EmptyDict
    /\ question_structure = <<>>
    /\ all_data = <<>>
    /\ csv = NotWritten
    /\ inst_results = <<>>
    /\ seen1 = {}
    /\ later_ids = {}
    /\ finalize_count = 0
    /\ pages_done = 0
    /\ fixed_schema = <<>>
    /\ InitExtractIdle

\* line 142 enters the loop body; line 143
BeginInstance ==
    /\ mode = "pdf"
    /\ pc = "loop"
    /\ i < images_len
    /\ survey_data' = EmptyDict
    /\ j' = 0
    /\ pc' = "page"
    /\ inst_results' = <<>>
    /\ UNCHANGED <<mode, images_len, survey_length, vocab, i, question_structure,
                   all_data, csv, seen1, later_ids, finalize_count, pages_done,
                   fixed_schema, text, result>>

\* lines 145-155 for an existing page
ProcessPage ==
    /\ mode = "pdf"
    /\ pc = "page"
    /\ i + j < images_len
    /\ \E resp \in Responses(vocab) :
        LET structured_data == process_image_with_llm(resp)
        IN  \E order \in KeyOrders(structured_data) :
            /\ survey_data' = SurveyDataAfterPage(survey_data, structured_data)
            /\ question_structure' =
                   QuestionStructureAfterPage(question_structure, i, structured_data, order)
            /\ inst_results' = Append(inst_results, structured_data)
            /\ seen1' = IF i = 0 THEN seen1 \cup DOMAIN structured_data.d ELSE seen1
            /\ later_ids' = IF i # 0 THEN later_ids \cup DOMAIN structured_data.d ELSE later_ids
    /\ pages_done' = pages_done + 1
    /\ pc' = PcAfterPage(i, j, survey_length)
    /\ j' = j + 1
    /\ UNCHANGED <<mode, images_len, survey_length, vocab, i, all_data, csv,
                   finalize_count, fixed_schema, text, result>>

\* line 145 is false: the final instance is short
SkipPage ==
    /\ mode = "pdf"
    /\ pc = "page"
    /\ i + j >= images_len
    /\ pc' = PcAfterPage(i, j, survey_length)
    /\ j' = j + 1
    /\ UNCHANGED <<mode, images_len, survey_length, vocab, i, survey_data,
                   question_structure, all_data, csv, inst_results, seen1, later_ids,
                   finalize_count, pages_done, fixed_schema, text, result>>

\* lines 158-160
FinalizeSchema ==
    /\ mode = "pdf"
    /\ pc = "finalize"
    /\ question_structure' \in SortedSet(question_structure)
    /\ finalize_count' = finalize_count + 1
    /\ fixed_schema' = question_structure'
    /\ pc' = "row"
    /\ UNCHANGED <<mode, images_len, survey_length, vocab, i, j, survey_data,
                   all_data, csv, inst_results, seen1, later_ids, pages_done,
                   text, result>>

\* lines 163-169, and the loop increment
MaterializeRow ==
    /\ mode = "pdf"
    /\ pc = "row"
    /\ ~RowRaises(question_structure, survey_data)
    /\ all_data' = Append(all_data, RowData(i, survey_length, question_structure, survey_data))
    /\ i' = i + survey_length
    /\ pc' = "loop"
    /\ UNCHANGED <<mode, images_len, survey_length, vocab, j, survey_data,
                   question_structure, csv, inst_results, seen1, later_ids,
                   finalize_count, pages_done, fixed_schema, text, result>>

\* line 165 raises AttributeError, which nothing in process_pdf catches
MaterializeRowRaises ==
    /\ mode = "pdf"
    /\ pc = "row"
    /\ RowRaises(question_structure, survey_data)
    /\ pc' = "crashed"
    /\ UNCHANGED <<mode, images_len, survey_length, vocab, i, j, survey_data,
                   question_structure, all_data, csv, inst_results, seen1, later_ids,
                   finalize_count, pages_done, fixed_schema, text, result>>

\* the loop is exhausted; lines 172-179
WriteCSV ==
    /\ mode = "pdf"
    /\ pc = "loop"
    /\ i >= images_len
    /\ csv' = [written |-> TRUE, header |-> Header(question_structure), rows |-> all_data]
    /\ pc' = "done"
    /\ UNCHANGED <<mode, images_len, survey_length, vocab, i, j, survey_data,
                   question_structure, all_data, inst_results, seen1, later_ids,
                   finalize_count, pages_done, fixed_schema, text, result>>

Next ==
    \/ BeginInstance
    \/ ProcessPage
    \/ SkipPage
    \/ FinalizeSchema
    \/ MaterializeRow
    \/ MaterializeRowRaises
    \/ WriteCSV

Spec == Init /\ [][Next]_vars

(***************************************************************************)
(* Vocabulary of the properties.                                            *)
(***************************************************************************)
SchemaFixed == finalize_count >= 1

Finished == pc \in {"done", "crashed"}

\* pages of the instance that starts at page index ii
PagesOfInstance(ii) == Min(survey_length, images_len - ii)

\* the answer set the data model prescribes for page results rs: for each
\* identifier, the entry of the last page that supplied it
SuppliedBy(rs, q) == {p \in 1..Len(rs) : ~rs[p].none /\ q \in DOMAIN rs[p].d}

ExpectedAnswerSet(rs) ==
    [q \in {x \in vocab : SuppliedBy(rs, x) # {}} |-> rs[SetMax(SuppliedBy(rs, q))].d[q]]

\* the cell the row materializer contract prescribes
ExpectedCell(sd, q) ==
    IF q \in DOMAIN sd /\ sd[q].isdict /\ sd[q].answer # NoKey THEN sd[q].answer ELSE ""

\* the digit runs of the identifiers used here, as integers
Parts(q) ==
    CASE q = Id_1_1 -> <<1, 1>>
      [] q = Id_1_2 -> <<1, 2>>
      [] q = Id_1_02 -> <<1, 2>>
      [] q = Id_1_10 -> <<1, 10>>
      [] q = Id_2 -> <<2>>
      [] q = Id_2_1 -> <<2, 1>>

PartsLess(x, y) ==
    LET m == Min(Len(x), Len(y))
        d == {k \in 1..m : x[k] # y[k]}
    IN  IF d = {} THEN Len(x) < Len(y) ELSE x[SetMin(d)] < y[SetMin(d)]

(***************************************************************************)
(* C1.  For every number of pages, every survey_length and every pattern    *)
(* of failing pages, process_pdf runs to completion and writes exactly      *)
(* ceil(N/L) data rows whose response_id values are 1, 2, ..., ceil(N/L).   *)
(***************************************************************************)
C1_RunsToCompletion ==
    Finished =>
        /\ pc = "done"
        /\ csv.written
        /\ Len(csv.rows) = Ceil(images_len, survey_length)
        /\ \A r \in 1..Len(csv.rows) : csv.rows[r][1] = r

\* what does hold: a run that is not stopped by line 165 writes these rows
C1_RowsOfCompletedRun ==
    pc = "done" =>
        /\ csv.written
        /\ Len(csv.rows) = Ceil(images_len, survey_length)
        /\ \A r \in 1..Len(csv.rows) : csv.rows[r][1] = r

(***************************************************************************)
(* C2.  After instance 1 the schema holds exactly the identifiers returned  *)
(* by the successful pages of instance 1, each once, in natural order       *)
(* (digit runs compared as integers): "1_2" < "1_10" < "2_1", and the page  *)
(* answer sets {"1_1"}, {"1_2","2"} give exactly ["1_1","1_2","2"].         *)
(***************************************************************************)
\* the orderings the specification names, asked of the sort of line 159
C2_Examples ==
    /\ NaturalLess(Id_1_2, Id_1_10) /\ NaturalLess(Id_1_10, Id_2_1)
    /\ ~NaturalLess(Id_1_10, Id_1_2) /\ ~NaturalLess(Id_2_1, Id_1_10)
    /\ SortedSet(<<Id_1_1>> \o <<Id_1_2, Id_2>>) = {<<Id_1_1, Id_1_2, Id_2>>}
    /\ SortedSet(<<Id_2, Id_1_2>> \o <<Id_1_1, Id_2>>) = {<<Id_1_1, Id_1_2, Id_2>>}

\* C2: once fixed, the schema is the identifier set of instance 1's successful
\* pages, each once, in natural order; the named examples hold
C2_SchemaIsSortedIdSet ==
    /\ SchemaFixed =>
        /\ Range(question_structure) = seen1
        /\ Len(question_structure) = Cardinality(seen1)
        /\ \A a, b \in 1..Len(question_structure) :
               a < b => ~PartsLess(Parts(question_structure[b]), Parts(question_structure[a]))
    /\ pc = "finalize" /\ Len(question_structure) >= 3 => C2_Examples

C2_Witness ==
    /\ SchemaFixed
    /\ pc = "row"
    /\ Len(inst_results) = 2
    /\ inst_results[1].none
    /\ DOMAIN inst_results[2].d = {Id_1_10, Id_1_2}
    /\ question_structure = <<Id_1_2, Id_1_10>>

(***************************************************************************)
(* C3.  Once instance 1 has been processed the schema never changes, and    *)
(* an identifier that occurs only in later instances gets no column: it is  *)
(* not in the header and no row has a cell for it.                          *)
(***************************************************************************)
C3_SchemaFrozen ==
    /\ SchemaFixed => question_structure = fixed_schema
    /\ csv.written /\ SchemaFixed =>
        /\ csv.header = <<ResponseIdCol>> \o fixed_schema
        /\ \A q \in later_ids \ seen1 : q \notin Range(csv.header)
        /\ \A r \in 1..Len(csv.rows) : Len(csv.rows[r]) = 1 + Len(fixed_schema)

C3_Witness ==
    /\ csv.written
    /\ seen1 # {}
    /\ later_ids \ seen1 # {}
    /\ Len(csv.rows) >= 2

(***************************************************************************)
(* C4.  Every row is the projection of its instance's answer set onto the   *)
(* schema: one cell per schema position, holding the entry's answer, or ""  *)
(* where the answer set has no answer for the identifier; the header is     *)
(* ["response_id"] + schema, so header and rows have 1 + len(schema)        *)
(* columns.                                                                 *)
(***************************************************************************)
C4_RowShape ==
    /\ \A r \in 1..Len(all_data) : Len(all_data[r]) = 1 + Len(question_structure)
    /\ pc = "loop" /\ all_data # <<>> =>
        \A k \in 1..Len(question_structure) :
            all_data[Len(all_data)][k + 1] = ExpectedCell(survey_data, question_structure[k])
    /\ csv.written =>
        /\ csv.header = <<ResponseIdCol>> \o question_structure
        /\ Len(csv.header) = 1 + Len(question_structure)
        /\ csv.rows = all_data
        /\ \A r \in 1..Len(csv.rows) : Len(csv.rows[r]) = Len(csv.header)

\* a row, once appended, is never touched again
C4_RowsOnlyAppended ==
    \/ all_data' = all_data
    \/ /\ Len(all_data') = Len(all_data) + 1
       /\ SubSeq(all_data', 1, Len(all_data)) = all_data

\* C4: every row is the projection of its answer set onto the schema, with
\* 1 + len(schema) columns in header and rows, and is never changed afterwards
C4_RowIsProjection == []C4_RowShape /\ [][C4_RowsOnlyAppended]_vars

C4_Witness ==
    /\ pc = "loop"
    /\ Len(all_data) = 2
    /\ i >= images_len
    /\ images_len < 2 * survey_length
    /\ Len(question_structure) = 2
    /\ all_data[1][2] = "true"
    /\ all_data[2][2] = ""
    /\ all_data[2][3] = "false"

(***************************************************************************)
(* C6.  Building a row never fails: whatever entries the parsed objects     *)
(* hold, every schema position gets a value.                                *)
(***************************************************************************)
C6_RowNeverFails == pc = "row" => ~RowRaises(question_structure, survey_data)

(***************************************************************************)
(* C7.  The schema depends only on the set of identifiers seen in instance  *)
(* 1, not on page order, key order or multiplicity, provided no two of the  *)
(* identifiers have equal natural-sort keys.                                *)
(***************************************************************************)
KeysDistinct(S) ==
    \A a, b \in S : a # b => natural_sort_key(a) # natural_sort_key(b)

CanonicalSchema(S) ==
    CHOOSE p \in Arrangements(S) : \A a, b \in 1..Len(p) : a < b => NaturalLess(p[a], p[b])

\* C7: with pairwise distinct keys the schema is the one sorted sequence of
\* the identifier set, whatever the order and multiplicity of observation
C7_SchemaFunctionOfSet ==
    SchemaFixed /\ KeysDistinct(seen1) =>
        question_structure = CanonicalSchema(seen1)

\* 1_10 is observed first and twice, 1_2 after it
C7_Witness ==
    /\ SchemaFixed
    /\ pc = "row"
    /\ KeysDistinct(seen1)
    /\ Len(inst_results) = 2
    /\ DOMAIN inst_results[1].d = {Id_1_10}
    /\ DOMAIN inst_results[2].d = {Id_1_2, Id_1_10}
    /\ question_structure = <<Id_1_2, Id_1_10>>

\* with equal keys the order is not determined by the set
C7_EqualKeysEitherOrder ==
    /\ ~KeysDistinct({Id_1_2, Id_1_02})
    /\ SortedSet(<<Id_1_2, Id_1_02>>) = {<<Id_1_2, Id_1_02>>, <<Id_1_02, Id_1_2>>}

(***************************************************************************)
(* C9.  The answer set behind instance k's row is the merge, in page        *)
(* order, of the answer sets of that instance's own pages: the later page   *)
(* wins a collision and nothing of another instance is in it.               *)
(***************************************************************************)
C9_AnswerSetIsOrderedMerge ==
    pc \in {"page", "finalize", "row"} =>
        /\ survey_data = ExpectedAnswerSet(inst_results)
        /\ Len(inst_results) = Min(j, PagesOfInstance(i))
        /\ pc # "page" => Len(inst_results) = PagesOfInstance(i)

C9_Witness ==
    /\ pc = "row"
    /\ Len(inst_results) = 2
    /\ \E q \in vocab :
        /\ ~inst_results[1].none /\ q \in DOMAIN inst_results[1].d
        /\ ~inst_results[2].none /\ q \in DOMAIN inst_results[2].d
        /\ inst_results[1].d[q] = EntryTrue
        /\ inst_results[2].d[q] = EntryFalse
        /\ survey_data[q] = EntryFalse

(***************************************************************************)
(* C10.  Schema finalization happens exactly once in every run, after all   *)
(* pages of instance 1 and before any row; no page of a later instance is   *)
(* processed before it.                                                     *)
(***************************************************************************)
C10_Ordering ==
    /\ finalize_count <= 1
    /\ pc = "finalize" => pages_done = PagesOfInstance(0) /\ all_data = <<>>
    /\ SchemaFixed => pages_done >= PagesOfInstance(0)
    /\ ~SchemaFixed => all_data = <<>> /\ pages_done <= PagesOfInstance(0) /\ i = 0

\* C10 as stated: exactly once in every run
C10_ExactlyOnceInEveryRun ==
    /\ C10_Ordering
    /\ Finished => finalize_count = 1

\* C10 amended: exactly once in every run over at least one page, never in a
\* run over zero pages; always after instance 1's pages and before any row
C10_ExactlyOnceWhenPagesExist ==
    /\ C10_Ordering
    /\ Finished => finalize_count = (IF images_len > 0 THEN 1 ELSE 0)
    /\ Finished /\ images_len = 0 => question_structure = <<>> /\ csv.header = <<ResponseIdCol>>

C10_Witness ==
    /\ pc = "done"
    /\ finalize_count = 1
    /\ Len(csv.rows) = 3
    /\ pages_done = 3

(***************************************************************************)
(* C5.  A page whose model call or extraction fails counts as a page with   *)
(* no answers: the step leaves the same state as merging an empty answer    *)
(* set would, the remaining pages of the instance and the later instances   *)
(* are still processed.                                                     *)
(***************************************************************************)
C5_FailedPageStep ==
    /\ pc = "page"
    /\ Len(inst_results') = Len(inst_results) + 1
    /\ inst_results'[Len(inst_results')].none

\* C5: a failed page acts as an empty answer set and stops nothing
C5_FailedPageIsEmptyPage ==
    /\ [][C5_FailedPageStep =>
            /\ survey_data' = DictUpdate(survey_data, EmptyDict)
            /\ question_structure' = question_structure \o <<>>
            /\ seen1' = seen1
            /\ all_data' = all_data
            /\ i' = i /\ j' = j + 1
            /\ pc' = (IF j + 1 < survey_length THEN "page"
                      ELSE IF i = 0 THEN "finalize" ELSE "row")]_vars
    /\ [](pc \in {"finalize", "row"} => Len(inst_results) = PagesOfInstance(i))
    /\ [](pc = "done" => Len(all_data) = Ceil(images_len, survey_length))

C5_Witness ==
    /\ pc = "loop"
    /\ Len(all_data) = 1
    /\ i < images_len
    /\ Len(inst_results) = 2
    /\ ~inst_results[1].none
    /\ inst_results[2].none
    /\ Len(question_structure) = 1
    /\ all_data[1][2] = "true"

(***************************************************************************)
(* extract_json_from_text (main.py:19-38).                                  *)
(*                                                                          *)
(* A text is a sequence over TextChars.  The JSON documents of the model    *)
(* are  Object ::= "{" Member* "}",  Member ::= "a" Value,                  *)
(* Value ::= "t" | Object:  "a" is a key with its colon, "t" a scalar, and  *)
(* separators are left out.  "x" occurs in prose only.  A parsed object is  *)
(* the set of its <<path of keys, leaf>> pairs; an empty nested object is   *)
(* the leaf "{}".                                                           *)
(***************************************************************************)
TextChars == {"{", "}", "a", "t", "x"}

Texts == UNION {[1..n -> TextChars] : n \in 0..MaxTextLen}

ParseFail == [ok |-> FALSE, pos |-> 0, val |-> {}]

\* the object acc with key k set to a scalar leaf: a repeated key replaces
PutLeaf(acc, k, leaf) ==
    {e \in acc : e[1][1] # k} \cup {<<<<k>>, leaf>>}

\* the object acc with key k set to the nested object val
PutObject(acc, k, val) ==
    {e \in acc : e[1][1] # k}
        \cup (IF val = {} THEN {<<<<k>>, "{}">>}
              ELSE {<<<<k>> \o e[1], e[2]>> : e \in val})

\* the members of an object from position p on, up to its closing brace
RECURSIVE ParseMembersAt(_, _, _)
ParseMembersAt(s, p, acc) ==
    IF p > Len(s) THEN ParseFail
    ELSE IF s[p] = "}" THEN [ok |-> TRUE, pos |-> p + 1, val |-> acc]
    ELSE IF s[p] # "a" \/ p + 1 > Len(s) THEN ParseFail
    ELSE IF s[p + 1] = "t" THEN ParseMembersAt(s, p + 2, PutLeaf(acc, "a", "t"))
    ELSE IF s[p + 1] = "{"
         THEN LET r == ParseMembersAt(s, p + 2, {})
              IN  IF r.ok THEN ParseMembersAt(s, r.pos, PutObject(acc, "a", r.val))
                  ELSE ParseFail
    ELSE ParseFail

\* json.loads(s): one object and nothing after it, else JSONDecodeError
JsonLoads(s) ==
    IF s = <<>> \/ s[1] # "{" THEN [ok |-> FALSE, val |-> {}]
    ELSE LET r == ParseMembersAt(s, 2, {})
         IN  IF r.ok /\ r.pos = Len(s) + 1 THEN [ok |-> TRUE, val |-> r.val]
             ELSE [ok |-> FALSE, val |-> {}]

Positions(t, c) == {p \in 1..Len(t) : t[p] = c}

NoMatch == [found |-> FALSE, first |-> 0, last |-> 0]

\* faulty variant: the non-greedy pattern \{.*?\}
RegexSearchNonGreedy(t) ==
    IF Positions(t, "{") = {} THEN NoMatch
    ELSE LET f == SetMin(Positions(t, "{"))
             after == {p \in Positions(t, "}") : p > f}
         IN  IF after = {} THEN NoMatch
             ELSE [found |-> TRUE, first |-> f, last |-> SetMin(after)]

\* re.search(r'(\{.*\})', text, re.DOTALL), line 22: the match starts at the
\* leftmost "{" that has a "}" after it and runs to the rightmost "}"
RegexSearch(t) ==
    IF Positions(t, "{") = {} \/ Positions(t, "}") = {} THEN NoMatch
    ELSE LET f == SetMin(Positions(t, "{"))
             l == SetMax(Positions(t, "}"))
         IN  IF f < l THEN [found |-> TRUE, first |-> f, last |-> l] ELSE NoMatch

\* the value returned, and the message logged
extract_json_from_text(t) ==
    LET m == RegexSearch(t)
    IN  IF m.found
        THEN LET json_data == JsonLoads(SubSeq(t, m.first, m.last))
             IN  IF json_data.ok
                 THEN [ok |-> TRUE, value |-> json_data.val, log |-> "parsed"]
                 ELSE [ok |-> FALSE, value |-> {}, log |-> "JSON Decode Error"]
        ELSE [ok |-> FALSE, value |-> {}, log |-> "No JSON object found"]

InitExtract ==
    /\ mode = "extract"
    /\ text \in Texts
    /\ result = NoResult
    /\ pc = "call"
    /\ images_len = 0
    /\ survey_length = 1
    /\ vocab = {}
    /\ i = 0
    /\ j = 0
    /\ survey_data = EmptyDict
    /\ question_structure = <<>>
    /\ all_data = <<>>
    /\ csv = NotWritten
    /\ inst_results = <<>>
    /\ seen1 = {}
    /\ later_ids = {}
    /\ finalize_count = 0
    /\ pages_done = 0
    /\ fixed_schema = <<>>

ExtractJson ==
    /\ mode = "extract"
    /\ pc = "call"
    /\ result' = extract_json_from_text(text)
    /\ pc' = "returned"
    /\ UNCHANGED <<mode, text, images_len, survey_length, vocab, i, j, survey_data,
                   question_structure, all_data, csv, inst_results, seen1, later_ids,
                   finalize_count, pages_done, fixed_schema>>

NextExtract == ExtractJson

SpecExtract == InitExtract /\ [][NextExtract]_vars

(***************************************************************************)
(* C8.  A text that contains exactly one valid JSON object, with or without *)
(* prose around it, yields that object's mapping; a text without "{"        *)
(* yields the no-object-found failure.                                      *)
(***************************************************************************)
\* the spans of t that are valid JSON objects
ObjectSpans(t) ==
    {sp \in (1..Len(t)) \X (1..Len(t)) :
        sp[1] < sp[2] /\ JsonLoads(SubSeq(t, sp[1], sp[2])).ok}

\* those not nested inside another one
TopLevelSpans(t) ==
    {sp \in ObjectSpans(t) :
        \A o \in ObjectSpans(t) : o # sp => ~(o[1] <= sp[1] /\ sp[2] <= o[2])}

TheObject(t) == CHOOSE sp \in TopLevelSpans(t) : TRUE

ContainsOneObject(t) == Cardinality(TopLevelSpans(t)) = 1

NoObjectFoundWithoutBrace ==
    Positions(text, "{") = {} => ~result.ok /\ result.log = "No JSON object found"

\* C8 as stated: any surrounding prose
C8_RoundTripAnyProse ==
    pc = "returned" =>
        /\ ContainsOneObject(text) =>
            /\ result.ok
            /\ result.value = JsonLoads(SubSeq(text, TheObject(text)[1], TheObject(text)[2])).val
        /\ NoObjectFoundWithoutBrace

\* the prose before the object has no "{" and the prose after it no "}"
BraceFreeProse(t) ==
    /\ \A p \in Positions(t, "{") : p >= TheObject(t)[1]
    /\ \A p \in Positions(t, "}") : p <= TheObject(t)[2]

\* C8 amended: the round trip holds when no "{" precedes and no "}" follows
\* the object; a text without "{" yields the no-object-found failure
C8_RoundTripBraceFreeProse ==
    pc = "returned" =>
        /\ ContainsOneObject(text) /\ BraceFreeProse(text) =>
            /\ result.ok
            /\ result.value = JsonLoads(SubSeq(text, TheObject(text)[1], TheObject(text)[2])).val
        /\ NoObjectFoundWithoutBrace

C8_Witness ==
    /\ pc = "returned"
    /\ text = <<"x", "{", "a", "t", "}", "a">>
    /\ result.ok
    /\ result.value = {<<<<"a">>, "t">>}

====
